---- MODULE Spec2Model ----
(***************************************************************************)
(* Model of contracts/license/src/lib.rs: the NEAR license contract.       *)
(*                                                                         *)
(* The persisted state is the contract's storage: the root slot holding    *)
(* the borsh-serialized contract struct, and the trie entries written by   *)
(* the LookupMap under its prefix.  Every exported method is one action;   *)
(* a panic aborts the call and leaves the storage as it was.               *)
(*                                                                         *)
(* Numbers are scaled: u64 is the range 0..U64_MAX, a day lasts DAY_NS     *)
(* ticks and duration_days ranges over 0..U32_MAX, chosen so that both     *)
(* the multiplication of line 88 and the addition of line 89 can exceed    *)
(* U64_MAX, as they can in the source.                                     *)
(***************************************************************************)
EXTENDS Integers, Sequences, FiniteSets, TLC

\* ---- bounds (scaled widths) ----
U64_MAX == 5
U32_MAX == 3
DAY_NS == 2
MaxOldExpiry == 2

U64_MODULUS == U64_MAX + 1

\* ---- identities ----
AdminAccount == "admin.near"
UserAccount == "user.near"
ContractAccount == "license.near"
EvmAddress == "0x1234567890abcdef1234567890abcdef12345678"

\* AccountId values: the callers, and the keys of the old map (lines 9-10)
AccountIds == {AdminAccount, UserAccount, ContractAccount}
\* accounts passed to new(admin)
AdminChoices == {AdminAccount, ContractAccount}
\* accounts licensed by the old contract
OldLicensees == {UserAccount}
\* wallet_address: String arguments (NEAR account or any other format)
WalletAddresses == {UserAccount, EvmAddress}

\* ---- Option<T> ----
None == <<>>
Some(v) == <<v>>
IsSome(o) == o # None
Unwrap(o) == o[1]

VARIABLES
    state_bytes,      \* Option: the serialized contract struct in the root slot
    trie,             \* storage key -> u64: the entries of the LookupMap
    block_timestamp,  \* env::block_timestamp()
    overflow_checks,  \* build profile: does u64 overflow panic (TRUE) or wrap
    granted,          \* history: wallet addresses a grant has succeeded for
    old_entries,      \* history: the AccountIds the old contract left an entry for
    last              \* the last call: arguments, context and outcome

vars == <<state_bytes, trie, block_timestamp, overflow_checks, granted, old_entries, last>>

\* ---- borsh ----
\* a String is its u32 length followed by its bytes
BorshString(s) == <<Len(s), s>>
\* an AccountId is serialized as the string it wraps
AccountIdAsStr(a) == a
BorshAccountId(a) == BorshString(AccountIdAsStr(a))
\* a struct is its fields in declaration order: licenses (prefix), admin
BorshContract(c) == <<c.licenses, BorshAccountId(c.admin)>>
BorshReadContract(b) == [licenses |-> b[1], admin |-> b[2][2]]

\* ---- LookupMap ----
LookupMapNew(prefix) == prefix
\* the prefix of the licenses map: of new (line 35) and of the old contract (line 52)
LicensesPrefix == "l"
OldPrefix == "l"
\* the storage key of an entry: prefix ++ borsh(key)
StorageKey_PrefixOnly(prefix, ser_key) == <<prefix>>
StorageKey(prefix, ser_key) == <<prefix>> \o ser_key
LookupGet(map, ser_key) ==
    IF StorageKey(map, ser_key) \in DOMAIN trie
    THEN Some(trie[StorageKey(map, ser_key)])
    ELSE None
LookupInsert_Replace(map, ser_key, v) ==
    [k \in {StorageKey(map, ser_key)} |-> v]
LookupInsert(map, ser_key, v) ==
    [k \in (DOMAIN trie) \cup {StorageKey(map, ser_key)} |->
        IF k = StorageKey(map, ser_key) THEN v ELSE trie[k]]

\* ---- contract state ----
OldLicenseContract(entries, admin) ==
    [root |-> BorshContract([licenses |-> LookupMapNew(OldPrefix), admin |-> admin]),
     trie |-> [k \in {StorageKey(OldPrefix, BorshAccountId(a)) : a \in DOMAIN entries}
                 |-> entries[CHOOSE a \in DOMAIN entries :
                                k = StorageKey(OldPrefix, BorshAccountId(a))]]]

Initialized == IsSome(state_bytes)
LicenseContract == BorshReadContract(Unwrap(state_bytes))
admin == LicenseContract.admin
licenses == LicenseContract.licenses

\* ---- the record of a call ----
Call(op, caller, wallet, days, prev, err, ret_bool, ret_opt) ==
    [op |-> op, caller |-> caller, wallet |-> wallet, days |-> days,
     prev |-> prev, err |-> err,
     ret_bool |-> ret_bool, ret_opt |-> ret_opt]
NoCall == [op |-> "none", caller |-> ContractAccount, wallet |-> UserAccount, days |-> 0,
           prev |-> None, err |-> "", ret_bool |-> FALSE, ret_opt |-> None]
Ok == ""

\* ---- queries ----
\* lines 115-117 and 102-105: what get_expiry and is_licensed return
get_expiry_of_DropExpired(wallet_address) ==
    LET e == LookupGet(licenses, BorshString(wallet_address))
    IN IF IsSome(e) /\ Unwrap(e) > block_timestamp THEN e ELSE None
get_expiry_of(wallet_address) == LookupGet(licenses, BorshString(wallet_address))
is_licensed_of_Inclusive(wallet_address) ==
    IF IsSome(get_expiry_of(wallet_address))
    THEN Unwrap(get_expiry_of(wallet_address)) >= block_timestamp
    ELSE FALSE
is_licensed_of(wallet_address) ==
    IF IsSome(get_expiry_of(wallet_address))
    THEN Unwrap(get_expiry_of(wallet_address)) > block_timestamp
    ELSE FALSE

\* a panic aborts the call: nothing is written; the record keeps the caller and the error
Panic(op, caller, err) ==
    /\ last' = Call(op, caller, UserAccount, 0, None, err, FALSE, None)
    /\ UNCHANGED <<state_bytes, trie, block_timestamp, overflow_checks, granted, old_entries>>

\* ---- Init ----
InitFresh ==
    /\ state_bytes = None
    /\ trie = <<>>
    /\ granted = {}
    /\ old_entries = {}

InitUpgraded ==
    \E a \in AdminChoices, ks \in SUBSET OldLicensees :
      \E entries \in [ks -> 1..MaxOldExpiry] :
        /\ state_bytes = Some(OldLicenseContract(entries, a).root)
        /\ trie = OldLicenseContract(entries, a).trie
        /\ granted = {AccountIdAsStr(k) : k \in ks}
        /\ old_entries = DOMAIN entries

Init ==
    /\ InitFresh \/ InitUpgraded
    /\ block_timestamp = 0
    /\ overflow_checks \in BOOLEAN
    /\ last = NoCall

\* ---- new ----
new_IgnoreState(caller, admin_arg) ==
    /\ state_bytes' = Some(BorshContract([licenses |-> LookupMapNew(LicensesPrefix),
                                          admin |-> admin_arg]))
    /\ last' = Call("new", caller, admin_arg, 0, None, Ok, FALSE, None)
    /\ UNCHANGED <<trie, block_timestamp, overflow_checks, granted, old_entries>>
new(caller, admin_arg) ==
    IF Initialized
    THEN Panic("new", caller, "AlreadyInitialized")
    ELSE /\ state_bytes' = Some(BorshContract([licenses |-> LookupMapNew(LicensesPrefix),
                                               admin |-> admin_arg]))
         /\ last' = Call("new", caller, admin_arg, 0, None, Ok, FALSE, None)
         /\ UNCHANGED <<trie, block_timestamp, overflow_checks, granted, old_entries>>

\* ---- migrate ----
\* lines 56-59: the new struct built from the old one
MigratedState_AdminIsCaller(old_state) ==
    [licenses |-> LookupMapNew("l"), admin |-> ContractAccount]
MigratedState_OtherPrefix(old_state) ==
    [licenses |-> LookupMapNew("licenses"), admin |-> old_state.admin]
MigratedState_NestedPrefix(old_state) ==
    [licenses |-> LookupMapNew(old_state.licenses \o "l"), admin |-> old_state.admin]
MigratedState(old_state) ==
    [licenses |-> LookupMapNew("l"), admin |-> old_state.admin]

migrate_NotPrivate(caller) ==
    IF ~Initialized
    THEN Panic("migrate", caller, "Failed to read old state")
    ELSE LET old_state == BorshReadContract(Unwrap(state_bytes))
         IN /\ state_bytes' = Some(BorshContract(MigratedState(old_state)))
            /\ last' = Call("migrate", caller, UserAccount, 0, None, Ok, FALSE, None)
            /\ UNCHANGED <<trie, block_timestamp, overflow_checks, granted, old_entries>>
migrate(caller) ==
    IF caller # ContractAccount
    THEN Panic("migrate", caller, "Private")
    ELSE IF ~Initialized
    THEN Panic("migrate", caller, "Failed to read old state")
    ELSE LET old_state == BorshReadContract(Unwrap(state_bytes))
         IN /\ state_bytes' = Some(BorshContract(MigratedState(old_state)))
            /\ last' = Call("migrate", caller, UserAccount, 0, None, Ok, FALSE, None)
            /\ UNCHANGED <<trie, block_timestamp, overflow_checks, granted, old_entries>>

\* ---- grant_license ----
\* line 74: the require! condition
IsAuthorized_Anyone(caller) == TRUE
IsAuthorized_Inverted(caller) == caller # admin
IsAuthorized(caller) == caller = admin
\* lines 81-85: current expiry if set and not yet expired, else the current timestamp
BaseTimestamp_AlwaysNow(wallet_address, current_timestamp) == current_timestamp
BaseTimestamp_NoFilter(wallet_address, current_timestamp) ==
    LET existing == LookupGet(licenses, BorshString(wallet_address))
    IN IF IsSome(existing) THEN Unwrap(existing) ELSE current_timestamp
BaseTimestamp(wallet_address, current_timestamp) ==
    LET existing == LookupGet(licenses, BorshString(wallet_address))
    IN IF IsSome(existing) /\ Unwrap(existing) > current_timestamp
       THEN Unwrap(existing)
       ELSE current_timestamp
\* line 88: the exact product, before it is fitted to u64
DurationNs_AtLeastOneDay(duration_days) ==
    IF duration_days = 0 THEN DAY_NS ELSE duration_days * DAY_NS
DurationNs_Inclusive(duration_days) == (duration_days + 1) * DAY_NS
DurationNs_WrongUnit(duration_days) == duration_days * (DAY_NS - 1)
DurationNs(duration_days) == duration_days * DAY_NS
\* u64 arithmetic: a result above U64_MAX panics or wraps, as the build decides
Overflows(x) == x > U64_MAX
Wrap(x) == x % U64_MODULUS
\* line 89, on the wrapped product
NewExpiry_FromNow(base_timestamp, duration_ns) == Wrap(block_timestamp + duration_ns)
NewExpiry(base_timestamp, duration_ns) == Wrap(base_timestamp + duration_ns)

grant_license(caller, wallet_address, duration_days) ==
    IF ~Initialized
    THEN Panic("grant_license", caller, "NotInitialized")
    ELSE IF ~IsAuthorized(caller)
    THEN Panic("grant_license", caller, "Unauthorized")
    ELSE LET current_timestamp == block_timestamp
             base_timestamp == BaseTimestamp(wallet_address, current_timestamp)
             product == DurationNs(duration_days)
             duration_ns == Wrap(product)
             new_expiry == NewExpiry(base_timestamp, duration_ns)
         IN IF overflow_checks /\ (Overflows(product) \/ Overflows(base_timestamp + duration_ns))
            THEN /\ last' = Call("grant_license", caller, wallet_address, duration_days,
                                 None, "Overflow", FALSE, None)
                 /\ UNCHANGED <<state_bytes, trie, block_timestamp, overflow_checks,
                                granted, old_entries>>
            ELSE /\ trie' = LookupInsert(licenses, BorshString(wallet_address), new_expiry)
                 /\ granted' = granted \cup {wallet_address}
                 /\ last' = Call("grant_license", caller, wallet_address, duration_days,
                                 LookupGet(licenses, BorshString(wallet_address)),
                                 Ok, FALSE, None)
                 /\ UNCHANGED <<state_bytes, block_timestamp, overflow_checks, old_entries>>

\* ---- is_licensed ----
is_licensed_AdminOnly(caller, wallet_address) ==
    IF ~Initialized
    THEN Panic("is_licensed", caller, "NotInitialized")
    ELSE IF ~IsAuthorized(caller)
    THEN Panic("is_licensed", caller, "Unauthorized")
    ELSE /\ last' = Call("is_licensed", caller, wallet_address, 0,
                         LookupGet(licenses, BorshString(wallet_address)),
                         Ok, is_licensed_of(wallet_address), None)
         /\ UNCHANGED <<state_bytes, trie, block_timestamp, overflow_checks, granted, old_entries>>
is_licensed(caller, wallet_address) ==
    IF ~Initialized
    THEN Panic("is_licensed", caller, "NotInitialized")
    ELSE /\ last' = Call("is_licensed", caller, wallet_address, 0,
                         LookupGet(licenses, BorshString(wallet_address)),
                         Ok, is_licensed_of(wallet_address), None)
         /\ UNCHANGED <<state_bytes, trie, block_timestamp, overflow_checks, granted, old_entries>>

\* ---- get_expiry ----
get_expiry(caller, wallet_address) ==
    IF ~Initialized
    THEN Panic("get_expiry", caller, "NotInitialized")
    ELSE /\ last' = Call("get_expiry", caller, wallet_address, 0,
                         LookupGet(licenses, BorshString(wallet_address)),
                         Ok, FALSE, get_expiry_of(wallet_address))
         /\ UNCHANGED <<state_bytes, trie, block_timestamp, overflow_checks, granted, old_entries>>

\* ---- the clock: a later block ----
Tick ==
    /\ block_timestamp < U64_MAX
    /\ block_timestamp' = block_timestamp + 1
    /\ UNCHANGED <<state_bytes, trie, overflow_checks, granted, old_entries, last>>

Next ==
    \/ \E c \in AccountIds, a \in AdminChoices : new(c, a)
    \/ \E c \in AccountIds : migrate(c)
    \/ \E c \in AccountIds, w \in WalletAddresses, d \in 0..U32_MAX : grant_license(c, w, d)
    \/ \E c \in AccountIds, w \in WalletAddresses : is_licensed(c, w)
    \/ \E c \in AccountIds, w \in WalletAddresses : get_expiry(c, w)
    \/ Tick

Spec == Init /\ [][Next]_vars

\* ---- the same contract, observed block by block ----
\* a later block, with the record of the last call dropped: a recorded call is
\* then always a call made at the current timestamp
NewBlock ==
    /\ block_timestamp < U64_MAX
    /\ block_timestamp' = block_timestamp + 1
    /\ last' = NoCall
    /\ UNCHANGED <<state_bytes, trie, overflow_checks, granted, old_entries>>

NextBlock ==
    \/ \E c \in AccountIds, a \in AdminChoices : new(c, a)
    \/ \E c \in AccountIds : migrate(c)
    \/ \E c \in AccountIds, w \in WalletAddresses, d \in 0..U32_MAX : grant_license(c, w, d)
    \/ \E c \in AccountIds, w \in WalletAddresses : is_licensed(c, w)
    \/ \E c \in AccountIds, w \in WalletAddresses : get_expiry(c, w)
    \/ NewBlock

SpecBlock == Init /\ [][NextBlock]_vars

(***************************************************************************)
(* Properties                                                              *)
(***************************************************************************)
\* the entry stored for a wallet address, read straight from the trie
StoredExpiry(w) ==
    IF <<"l", Len(w), w>> \in DOMAIN trie THEN Some(trie[<<"l", Len(w), w>>]) ELSE None
\* the step is a call of op (every call leaves the clock alone and records itself)
CallStep(op) == block_timestamp' = block_timestamp /\ last'.op = op
\* the base a grant to w starts from: the stored expiry while it is later than now
ExpectedBase(w) ==
    IF IsSome(StoredExpiry(w)) /\ Unwrap(StoredExpiry(w)) > block_timestamp
    THEN Unwrap(StoredExpiry(w))
    ELSE block_timestamp
\* the step is the administrator's grant of d days to w on an initialized ledger
AdminGrant(w, d) ==
    /\ CallStep("grant_license")
    /\ Initialized
    /\ last'.caller = admin
    /\ last'.wallet = w
    /\ last'.days = d

\* C1: a grant_license call by anyone but the stored administrator fails with
\* Unauthorized and leaves every entry of the mapping and the administrator
\* as they were.
C1_UnauthorizedGrantChangesNothing ==
    [][(CallStep("grant_license") /\ Initialized /\ last'.caller # admin)
         => /\ last'.err = "Unauthorized"
            /\ trie' = trie
            /\ state_bytes' = state_bytes]_vars
C1_Witness ==
    /\ Initialized
    /\ last.op = "grant_license"
    /\ last.caller # admin
    /\ last.err = "Unauthorized"
    /\ DOMAIN trie # {}

\* C2 (as claimed): for every d and t0, the administrator's grant to a wallet
\* with no entry leaves get_expiry = t0 + d * DAY_NS and is_licensed = (d > 0).
C2_Original ==
    [][\A w \in WalletAddresses, d \in 0..U32_MAX :
         (AdminGrant(w, d) /\ StoredExpiry(w) = None)
           => /\ get_expiry_of(w)' = Some(block_timestamp + d * DAY_NS)
              /\ is_licensed_of(w)' = (d > 0)]_vars
\* C2 (amended): the same, for the d and t0 whose sum t0 + d * DAY_NS fits in
\* a u64.
C2_FirstGrant ==
    [][\A w \in WalletAddresses, d \in 0..U32_MAX :
         (AdminGrant(w, d) /\ StoredExpiry(w) = None
            /\ block_timestamp + d * DAY_NS <= U64_MAX)
           => /\ last'.err = Ok
              /\ get_expiry_of(w)' = Some(block_timestamp + d * DAY_NS)
              /\ is_licensed_of(w)' = (d > 0)]_vars
C2_Witness ==
    /\ Initialized
    /\ last.op = "grant_license" /\ last.err = Ok
    /\ last.prev = None
    /\ last.days > 0
    /\ block_timestamp > 0
    /\ get_expiry_of(last.wallet) = Some(block_timestamp + last.days * DAY_NS)

\* C3 (as claimed): a grant of d days made strictly before the stored expiry
\* leaves the expiry at existing + d * DAY_NS, and the wallet licensed.
C3_Original ==
    [][\A w \in WalletAddresses, d \in 0..U32_MAX :
         (AdminGrant(w, d) /\ IsSome(StoredExpiry(w))
            /\ block_timestamp < Unwrap(StoredExpiry(w)))
           => /\ get_expiry_of(w)' = Some(Unwrap(StoredExpiry(w)) + d * DAY_NS)
              /\ is_licensed_of(w)']_vars
\* C3 (amended): the same, when existing + d * DAY_NS fits in a u64.
C3_Extension ==
    [][\A w \in WalletAddresses, d \in 0..U32_MAX :
         (AdminGrant(w, d) /\ IsSome(StoredExpiry(w))
            /\ block_timestamp < Unwrap(StoredExpiry(w))
            /\ Unwrap(StoredExpiry(w)) + d * DAY_NS <= U64_MAX)
           => /\ last'.err = Ok
              /\ get_expiry_of(w)' = Some(Unwrap(StoredExpiry(w)) + d * DAY_NS)
              /\ is_licensed_of(w)']_vars
C3_Witness ==
    /\ Initialized
    /\ last.op = "grant_license" /\ last.err = Ok
    /\ last.days > 0
    /\ IsSome(last.prev)
    /\ block_timestamp > 0
    /\ block_timestamp < Unwrap(last.prev)
    /\ get_expiry_of(last.wallet) = Some(Unwrap(last.prev) + last.days * DAY_NS)

\* C4 (as claimed): a grant of d days made at t2, when the stored expiry has
\* been reached or passed, leaves the expiry at t2 + d * DAY_NS.
C4_Original ==
    [][\A w \in WalletAddresses, d \in 0..U32_MAX :
         (AdminGrant(w, d) /\ IsSome(StoredExpiry(w))
            /\ Unwrap(StoredExpiry(w)) <= block_timestamp)
           => get_expiry_of(w)' = Some(block_timestamp + d * DAY_NS)]_vars
\* C4 (amended): the same, when t2 + d * DAY_NS fits in a u64.
C4_Reset ==
    [][\A w \in WalletAddresses, d \in 0..U32_MAX :
         (AdminGrant(w, d) /\ IsSome(StoredExpiry(w))
            /\ Unwrap(StoredExpiry(w)) <= block_timestamp
            /\ block_timestamp + d * DAY_NS <= U64_MAX)
           => /\ last'.err = Ok
              /\ get_expiry_of(w)' = Some(block_timestamp + d * DAY_NS)]_vars
C4_Witness ==
    /\ Initialized
    /\ last.op = "grant_license" /\ last.err = Ok
    /\ last.days > 0
    /\ IsSome(last.prev)
    /\ Unwrap(last.prev) < block_timestamp
    /\ get_expiry_of(last.wallet) = Some(block_timestamp + last.days * DAY_NS)

\* C5: is_licensed returns true exactly when the wallet has an entry whose
\* expiry is strictly greater than the current time (false at equality).
C5_IsLicensedIffActive ==
    [][\A w \in WalletAddresses :
         (CallStep("is_licensed") /\ Initialized /\ last'.wallet = w)
           => /\ last'.err = Ok
              /\ last'.ret_bool <=> (/\ IsSome(StoredExpiry(w))
                                     /\ Unwrap(StoredExpiry(w)) > block_timestamp)]_vars
C5_Witness ==
    /\ last.op = "is_licensed" /\ last.err = Ok
    /\ last.prev = Some(block_timestamp)
    /\ last.ret_bool = FALSE

\* C6: a wallet that no grant has succeeded for is not licensed and has no
\* expiry, and only such wallets have no expiry.
C6_NeverGranted ==
    Initialized =>
      \A w \in WalletAddresses :
        /\ w \notin granted => (~is_licensed_of(w) /\ get_expiry_of(w) = None)
        /\ get_expiry_of(w) = None => w \notin granted
C6_Witness ==
    /\ Initialized
    /\ last.op = "get_expiry" /\ last.err = Ok
    /\ last.wallet \notin granted
    /\ last.ret_opt = None
    /\ granted # {}

\* C7 (as claimed): over the whole range of durations and expiries, an entry
\* is never removed and no step leaves a stored expiry lower than it was.
C7_Claim ==
    [][\A w \in WalletAddresses :
         IsSome(StoredExpiry(w))
           => /\ IsSome(StoredExpiry(w)')
              /\ Unwrap(StoredExpiry(w)') >= Unwrap(StoredExpiry(w))]_vars

\* C8: the administrator stored at construction is the administrator of
\* every later state.
C8_AdminImmutable ==
    [][Initialized => (Initialized' /\ admin' = admin)]_vars
C8_Witness ==
    /\ Initialized
    /\ last.op = "migrate" /\ last.err = Ok
    /\ admin = AdminAccount

\* C9: migrate leaves the trie as it was; every entry the old contract wrote
\* under an AccountId key is read back under the account's string form with
\* the same expiry, and is_licensed answers as before.
C9_MigratePreservesLicenses ==
    [][(CallStep("migrate") /\ last'.err = Ok)
         => /\ trie' = trie
            /\ \A a \in AccountIds :
                 LookupGet(licenses, BorshString(AccountIdAsStr(a)))'
                   = LookupGet(BorshReadContract(Unwrap(state_bytes)).licenses,
                               BorshAccountId(a))
            /\ \A w \in WalletAddresses :
                 /\ get_expiry_of(w)' = get_expiry_of(w)
                 /\ is_licensed_of(w)' = is_licensed_of(w)]_vars
C9_Witness ==
    /\ Initialized
    /\ last.op = "migrate" /\ last.err = Ok
    /\ old_entries # {}
    /\ \A a \in old_entries : IsSome(get_expiry_of(AccountIdAsStr(a)))

\* C10: while no grant is made to a wallet its stored expiry stays readable:
\* get_expiry keeps returning it, and once the clock has passed it
\* is_licensed returns false.
C10_ExpiredStaysReadable ==
    [][\A w \in WalletAddresses :
         (/\ Initialized
          /\ IsSome(StoredExpiry(w))
          /\ ~(CallStep("grant_license") /\ last'.wallet = w /\ last'.err = Ok))
           => /\ StoredExpiry(w)' = StoredExpiry(w)
              /\ get_expiry_of(w)' = StoredExpiry(w)
              /\ (CallStep("get_expiry") /\ last'.wallet = w)
                   => last'.ret_opt = StoredExpiry(w)
              /\ Unwrap(StoredExpiry(w)) < block_timestamp'
                   => /\ ~is_licensed_of(w)'
                      /\ (CallStep("is_licensed") /\ last'.wallet = w)
                           => last'.ret_bool = FALSE]_vars
C10_Witness ==
    /\ Initialized
    /\ last.op = "is_licensed" /\ last.err = Ok
    /\ last.ret_bool = FALSE
    /\ IsSome(last.prev)
    /\ Unwrap(last.prev) < block_timestamp
    /\ get_expiry_of(last.wallet) = last.prev

\* C11: the administrator's grant of 0 days is accepted; an active license
\* keeps its expiry, and an expired entry gets the current time as its expiry,
\* so the wallet stays unlicensed.
C11_ZeroDayGrant ==
    [][\A w \in WalletAddresses :
         AdminGrant(w, 0)
           => /\ last'.err = Ok
              /\ (IsSome(StoredExpiry(w)) /\ Unwrap(StoredExpiry(w)) > block_timestamp)
                   => StoredExpiry(w)' = StoredExpiry(w)
              /\ (IsSome(StoredExpiry(w)) /\ Unwrap(StoredExpiry(w)) <= block_timestamp)
                   => /\ StoredExpiry(w)' = Some(block_timestamp)
                      /\ ~is_licensed_of(w)']_vars
C11_Witness ==
    /\ Initialized
    /\ last.op = "grant_license" /\ last.err = Ok
    /\ last.days = 0
    /\ IsSome(last.prev)
    /\ Unwrap(last.prev) < block_timestamp
    /\ get_expiry_of(last.wallet) = Some(block_timestamp)
    /\ ~is_licensed_of(last.wallet)

\* C13: new on an initialized ledger is rejected and leaves the administrator
\* and every entry as they were, whoever calls it and whatever admin it names.
C13_NewOnlyOnce ==
    [][(CallStep("new") /\ Initialized)
         => /\ last'.err = "AlreadyInitialized"
            /\ state_bytes' = state_bytes
            /\ trie' = trie]_vars
C13_Witness ==
    /\ Initialized
    /\ last.op = "new"
    /\ last.err = "AlreadyInitialized"
    /\ last.caller # admin
    /\ DOMAIN trie # {}

\* C14: migrate called by anyone but the contract's own account is rejected
\* and leaves the administrator and every entry as they were.
C14_MigrateIsPrivate ==
    [][(CallStep("migrate") /\ last'.caller # ContractAccount)
         => /\ last'.err = "Private"
            /\ state_bytes' = state_bytes
            /\ trie' = trie]_vars
C14_Witness ==
    /\ Initialized
    /\ last.op = "migrate"
    /\ last.caller = UserAccount
    /\ last.err = "Private"
    /\ DOMAIN trie # {}

\* C15: is_licensed and get_expiry, called by anyone on an initialized ledger,
\* return without error and leave the administrator and every entry as they
\* were; for a wallet with no entry they return false and no expiry.
C15_QueriesArePure ==
    [][\A w \in WalletAddresses :
         ((CallStep("is_licensed") \/ CallStep("get_expiry"))
            /\ Initialized /\ last'.wallet = w)
           => /\ last'.err = Ok
              /\ state_bytes' = state_bytes
              /\ trie' = trie
              /\ StoredExpiry(w) = None
                   => (last'.ret_bool = FALSE /\ last'.ret_opt = None)]_vars
C15_Witness ==
    /\ Initialized
    /\ last.op = "is_licensed" /\ last.err = Ok
    /\ last.caller # admin
    /\ last.prev = None
    /\ last.ret_bool = FALSE
    /\ DOMAIN trie # {}

\* C16 (as claimed): migrate is rejected exactly when its caller is not the
\* stored administrator.
C16_Claim ==
    [][(CallStep("migrate") /\ Initialized)
         => (last'.err = Ok <=> last'.caller = admin)]_vars

\* C17 (as claimed): every grant by the administrator on an initialized
\* ledger succeeds and writes the entry, for every duration and every time.
C17_Original ==
    [][\A w \in WalletAddresses, d \in 0..U32_MAX :
         AdminGrant(w, d)
           => /\ last'.err = Ok
              /\ IsSome(StoredExpiry(w)')]_vars
\* C17 (amended): every grant by the administrator whose base + d * DAY_NS
\* fits in a u64 succeeds and writes the entry.
C17_AdminGrantSucceeds ==
    [][\A w \in WalletAddresses, d \in 0..U32_MAX :
         (AdminGrant(w, d) /\ ExpectedBase(w) + d * DAY_NS <= U64_MAX)
           => /\ last'.err = Ok
              /\ IsSome(StoredExpiry(w)')]_vars
C17_Witness ==
    /\ Initialized
    /\ overflow_checks
    /\ last.op = "grant_license" /\ last.err = Ok
    /\ last.caller = admin
    /\ last.days = 2
    /\ IsSome(get_expiry_of(last.wallet))

\* C18: a successful grant to one wallet leaves the entry of every other
\* wallet, what the queries answer for it, and the administrator as they were.
C18_GrantFrame ==
    [][\A w \in WalletAddresses :
         (CallStep("grant_license") /\ last'.err = Ok /\ last'.wallet # w)
           => /\ StoredExpiry(w)' = StoredExpiry(w)
              /\ get_expiry_of(w)' = get_expiry_of(w)
              /\ is_licensed_of(w)' = is_licensed_of(w)
              /\ state_bytes' = state_bytes]_vars
C18_Witness ==
    /\ Initialized
    /\ last.op = "grant_license" /\ last.err = Ok
    /\ last.wallet = EvmAddress
    /\ IsSome(get_expiry_of(UserAccount))
    /\ get_expiry_of(UserAccount) # get_expiry_of(EvmAddress)

\* C20: the state a successful migrate leaves is a fixed point of migrate:
\* reading it back as the old struct and migrating again gives the same root
\* slot, the same administrator and the same entries.
C20_MigrateTwice ==
    (last.op = "migrate" /\ last.err = Ok)
      => /\ Initialized
         /\ LET once == Unwrap(state_bytes)
                twice == BorshContract(MigratedState(BorshReadContract(once)))
            IN /\ twice = once
               /\ BorshReadContract(twice).admin = admin
               /\ \A w \in WalletAddresses :
                    LookupGet(BorshReadContract(twice).licenses, BorshString(w))
                      = StoredExpiry(w)
C20_Witness ==
    /\ Initialized
    /\ last.op = "migrate" /\ last.err = Ok
    /\ old_entries = {}
    /\ DOMAIN trie # {}

\* the step re-executes the last call: same method, caller, target and
\* duration (under SpecBlock: at the same timestamp)
SameCall ==
    /\ block_timestamp' = block_timestamp
    /\ last'.op = last.op
    /\ last'.caller = last.caller
    /\ last'.wallet = last.wallet
    /\ last'.days = last.days
\* what the re-executed call must leave as it was: the ledger and the result
SameOutcome ==
    /\ trie' = trie
    /\ state_bytes' = state_bytes
    /\ last'.err = last.err
    /\ last'.ret_bool = last.ret_bool
    /\ last'.ret_opt = last.ret_opt

\* C12 (as claimed): re-executing a grant_license, is_licensed or get_expiry
\* call at the same time leaves the ledger and the result as the first
\* execution left them.
C12_Original ==
    [][(SameCall /\ last.op \in {"grant_license", "is_licensed", "get_expiry"})
         => SameOutcome]_vars
\* C12 (amended): the same, for is_licensed, get_expiry, rejected grants and
\* grants of 0 days.
C12_Idempotent ==
    [][(/\ SameCall
        /\ \/ last.op \in {"is_licensed", "get_expiry"}
           \/ last.op = "grant_license" /\ (last.err # Ok \/ last.days = 0))
         => SameOutcome]_vars
C12_Witness ==
    /\ Initialized
    /\ last.op = "grant_license" /\ last.err = Ok
    /\ last.days = 0
    /\ last.prev = Some(block_timestamp)
    /\ get_expiry_of(last.wallet) = Some(block_timestamp)

\* C19: at one timestamp and without overflow, the administrator's grant of
\* d2 days right after a grant of d1 days to the same wallet leaves the expiry
\* base + (d1 + d2) * DAY_NS, base being what a single grant would start from
\* (the expiry stored before the first grant if later than now, else now);
\* the value is the same for d2 then d1.
C19_Additive ==
    [][\A w \in WalletAddresses, d1 \in 0..U32_MAX, d2 \in 0..U32_MAX :
         LET base == IF IsSome(last.prev) /\ Unwrap(last.prev) > block_timestamp
                     THEN Unwrap(last.prev)
                     ELSE block_timestamp
         IN (/\ last.op = "grant_license" /\ last.err = Ok
             /\ last.wallet = w /\ last.days = d1
             /\ AdminGrant(w, d2)
             /\ base + (d1 + d2) * DAY_NS <= U64_MAX)
              => /\ last'.err = Ok
                 /\ StoredExpiry(w)' = Some(base + (d1 + d2) * DAY_NS)]_vars
C19_Witness ==
    /\ Initialized
    /\ block_timestamp > 0
    /\ last.op = "grant_license" /\ last.err = Ok
    /\ last.days = 1
    /\ last.prev = Some(block_timestamp + DAY_NS)
    /\ get_expiry_of(last.wallet) = Some(block_timestamp + 2 * DAY_NS)
====
